---- MODULE Spec2Model ----
(***************************************************************************)
(* Model of client/serper_scraper.py (SerperScraperClient) and of the     *)
(* part of mcp_server.py that reads its results.                          *)
(*                                                                         *)
(* Python values are represented as follows:                              *)
(*   - Optional[T]: a sequence of length <= 1, None == <<>>, v == <<v>>;  *)
(*   - str: a sequence of one-character strings where the code looks      *)
(*     inside the string (str.replace, str.strip, json.loads), a TLA+     *)
(*     string where it only passes it on (urls, str(e));                  *)
(*   - the text of an HTML document: the sequence of its elements, the    *)
(*     empty document being <<>>.                                         *)
(***************************************************************************)
EXTENDS Integers, Sequences, FiniteSets, TLC

VARIABLES
    input,      \* the caller's request, before validation
    callState,  \* "new", "idle", "running", "returned", "raised", "rejected"
    tasks,      \* one record per _scrape_single_url coroutine, by position
    completed,  \* the positions of the finished coroutines, in completion order
    returned,   \* what scrape / batch_scrape returned (a list of ScrapeResult)
    search,     \* the client's key and the state of google_search calls
    md,         \* input and output of _html_to_markdown
    jl          \* input and output of the JSON-LD extraction of one page

vars == <<input, callState, tasks, completed, returned, search, md, jl>>

----------------------------------------------------------------------------
(* Bounds *)

MaxUrls == 2
MaxElems == 2
MaxNodes == 6
MaxSearchCalls == 2

----------------------------------------------------------------------------
(* Python values *)

None == <<>>
Some(v) == <<v>>

Urls == {"u1", "u2"}

\* str(e) of the exceptions a stage can raise; httpx timeouts have an empty
\* message
Messages == {"", "boom"}

RECURSIVE SeqsUpTo(_, _)
SeqsUpTo(S, n) ==
    IF n = 0 THEN {<<>>}
    ELSE LET shorter == SeqsUpTo(S, n - 1)
         IN  shorter \cup {Append(s, x) : s \in shorter, x \in S}

----------------------------------------------------------------------------
(* str.strip *)

IsSpace(c) == c \in {" ", "\n"}

RECURSIVE LStrip(_)
LStrip(s) ==
    IF s = <<>> THEN s
    ELSE IF IsSpace(Head(s)) THEN LStrip(Tail(s)) ELSE s

RECURSIVE RStrip(_)
RStrip(s) ==
    IF s = <<>> THEN s
    ELSE IF IsSpace(s[Len(s)]) THEN RStrip(SubSeq(s, 1, Len(s) - 1)) ELSE s

Strip(s) == RStrip(LStrip(s))

----------------------------------------------------------------------------
(* HTML documents: a sequence of elements.  An element is a script element *)
(* (with the way its type attribute is written and its content), a        *)
(* paragraph of visible text, the start of an ol element, or an li item   *)
(* of plain text (an item belongs to the ol opened last before it, or to  *)
(* no ol when none was opened).                                           *)

Element(tag, type, quote, body) ==
    [tag |-> tag, type |-> type, quote |-> quote, body |-> body]

Script(type, quote, body) == Element("script", type, quote, body)

Para(text) == Element("p", "none", "none", text)

Ol == Element("ol", "none", "none", <<>>)

Li(text) == Element("li", "none", "none", text)

\* contents of script elements: empty, a number, an unclosed array, an empty
\* array, a number padded with whitespace
ScriptBodies ==
    { <<>>, <<"1">>, <<"[">>, <<"[", "]">>, <<" ", "1", "\n">> }

ScriptTypes == {"application/ld+json", "text/javascript"}

\* type="..." , type='...' , type=... (unquoted, as minifiers write it)
Quotes == {"dq", "sq", "none"}

ScriptElements ==
    {Script(t, q, b) : t \in ScriptTypes, q \in Quotes, b \in ScriptBodies}

\* the pages of the JSON-LD extraction
Pages == SeqsUpTo(ScriptElements \cup {Para(<<"x">>)}, MaxElems)

\* texts of list items: four that do not overlap, and one that contains
\* another
ItemTexts == { <<"a">>, <<"b">>, <<"c">>, <<"d">>, <<"a", "a">> }

\* the pages of the markdown rendering
ListPages == SeqsUpTo({Ol} \cup {Li(t) : t \in ItemTexts}, MaxNodes)

EmptyPage == <<>>

\* the response bodies the servers of the batch model answer with
BatchPages ==
    { EmptyPage,
      <<Script("application/ld+json", "dq", <<"[", "]">>),
        Ol, Li(<<"a">>), Li(<<"a">>)>> }

----------------------------------------------------------------------------
(* json.loads, on the alphabet of ScriptBodies: a number, or an array of  *)
(* at most one value; whitespace around a value is skipped.               *)

RECURSIVE IsNumber(_)
IsNumber(s) ==
    /\ s # <<>>
    /\ Head(s) = "1"
    /\ \/ Len(s) = 1
       \/ IsNumber(Tail(s))

RECURSIVE JsonParses(_)
JsonParses(s) ==
    LET t == Strip(s)
    IN  \/ IsNumber(t)
        \/ /\ Len(t) >= 2
           /\ Head(t) = "["
           /\ t[Len(t)] = "]"
           /\ LET inner == SubSeq(t, 2, Len(t) - 1)
              IN  Strip(inner) = <<>> \/ JsonParses(inner)

\* the parsed value, written without the insignificant whitespace
JsonLoads(s) == SelectSeq(s, LAMBDA c : ~IsSpace(c))

JSONLD(raw, parsed) == [raw |-> raw, parsed |-> parsed]

\* the regular expression of _extract_json_ld matches an element
PatternMatches(el) ==
    /\ el.tag = "script"
    /\ el.type = "application/ld+json"
    /\ el.quote \in {"dq", "sq"}

\* a faulty variant: invalid JSON is kept with no parsed value instead of skipped
KeepUnparsed(json_ld_list, json_str) ==
    IF JsonParses(json_str)
    THEN Append(json_ld_list, JSONLD(json_str, JsonLoads(json_str)))
    ELSE Append(json_ld_list, JSONLD(json_str, <<>>))

\* the try/except of the loop body
AppendIfParses(json_ld_list, json_str) ==
    IF JsonParses(json_str)
    THEN Append(json_ld_list, JSONLD(json_str, JsonLoads(json_str)))
    ELSE json_ld_list

RECURSIVE ExtractFrom(_, _, _)
ExtractFrom(html, i, json_ld_list) ==
    IF i > Len(html) THEN json_ld_list
    ELSE IF PatternMatches(html[i])
         THEN ExtractFrom(html, i + 1,
                          AppendIfParses(json_ld_list, Strip(html[i].body)))
         ELSE ExtractFrom(html, i + 1, json_ld_list)

ExtractJsonLd(html) == ExtractFrom(html, 1, <<>>)

\* the documents of the model carry no meta and no title element
ExtractMetaTags(html) == <<>>

Title(html) == None

\* the strings soup.get_text collects: the non-empty stripped strings of the
\* visible elements, in document order
RECURSIVE VisibleStrings(_)
VisibleStrings(html) ==
    IF html = <<>> THEN <<>>
    ELSE LET el == Head(html)
             s == Strip(el.body)
         IN  IF el.tag \in {"p", "li"} /\ s # <<>>
             THEN <<s>> \o VisibleStrings(Tail(html))
             ELSE VisibleStrings(Tail(html))

RECURSIVE Join(_, _)
Join(strings, sep) ==
    IF strings = <<>> THEN <<>>
    ELSE IF Len(strings) = 1 THEN Head(strings)
    ELSE Head(strings) \o sep \o Join(Tail(strings), sep)

\* soup.get_text(separator='\n', strip=True)
GetText(html) == Join(VisibleStrings(html), <<"\n">>)

----------------------------------------------------------------------------
(* _html_to_markdown *)

\* str.replace(old, new) for a non-empty old: every non-overlapping
\* occurrence, from the left
RECURSIVE Replace(_, _, _)
Replace(text, old, new) ==
    IF Len(text) < Len(old) THEN text
    ELSE IF SubSeq(text, 1, Len(old)) = old
         THEN new \o Replace(SubSeq(text, Len(old) + 1, Len(text)), old, new)
         ELSE <<Head(text)>> \o Replace(Tail(text), old, new)

DigitChars == <<"0", "1", "2", "3", "4", "5", "6", "7", "8", "9">>

\* str(counter) in an f-string
RECURSIVE Str(_)
Str(n) ==
    IF n < 10 THEN <<DigitChars[n + 1]>>
    ELSE Str(n \div 10) \o <<DigitChars[(n % 10) + 1]>>

\* f"{counter}. {li_text}"
Numbered(counter, li_text) == Str(counter) \o <<".", " ">> \o li_text

\* a faulty variant: the counter starts again at every ol
CounterResetPerList(counter) == 1

\* the counter when the loop enters the next ol: set once before the loop
\* (counter = 1), untouched between lists
CounterAtListStart(counter) == counter

\* the loops over soup.find_all('ol') and ol.find_all('li'); acc holds the
\* text and the counter, inOl whether an ol has been entered
RECURSIVE OrderedLists(_, _, _, _)
OrderedLists(html, i, acc, inOl) ==
    IF i > Len(html) THEN acc
    ELSE LET el == html[i]
             li_text == Strip(el.body)
         IN  IF el.tag = "ol"
             THEN OrderedLists(html, i + 1,
                      [acc EXCEPT !.counter = CounterAtListStart(@)], TRUE)
             ELSE IF el.tag = "li" /\ inOl /\ li_text # <<>>
             THEN OrderedLists(html, i + 1,
                      [text |-> Replace(acc.text, li_text,
                                        Numbered(acc.counter, li_text)),
                       counter |-> acc.counter + 1], inOl)
             ELSE OrderedLists(html, i + 1, acc, inOl)

\* script and style elements are removed, the base text is taken; the
\* documents of the model have no heading, bold, italic, ul or a element, so
\* only the loop over the ordered lists rewrites the text
MarkdownRun(html) ==
    LET soup == SelectSeq(html, LAMBDA el : el.tag # "script")
    IN  OrderedLists(soup, 1, [text |-> GetText(soup), counter |-> 1], FALSE)

HtmlToMarkdown(html) == MarkdownRun(html).text

----------------------------------------------------------------------------
(* ScrapeResult and the body of _scrape_single_url *)

ScrapeResult(url, title, html, markdown, text, meta_tags, json_ld, error) ==
    [url |-> url, timestamp |-> "utcnow", title |-> title, html |-> html,
     markdown |-> markdown, text |-> text, meta_tags |-> meta_tags,
     json_ld |-> json_ld, error |-> error]

\* the return of the try block; markdown is None when it was not requested
SuccessResult(url, html, markdown) ==
    ScrapeResult(url, Title(html), html, markdown, Some(GetText(html)),
                 ExtractMetaTags(html), ExtractJsonLd(html), None)

\* request.includeMarkdown or False
OrFalse(flag) == flag = Some(TRUE)

\* a coroutine of _scrape_single_url: its position in the code, its locals,
\* the number of client.get calls it has made, and the stage that raised
\* with the message of its exception ("none" and None while none has)
NewTask(url, include_markdown) ==
    [pc |-> "Pending", url |-> url, include_markdown |-> include_markdown,
     html |-> None, result |-> None, gets |-> 0, failed |-> "none",
     exc |-> None]

\* a stage of the coroutine raises an exception whose str() is msg
Raise(t, stage, msg) == [t EXCEPT !.failed = stage, !.exc = Some(msg)]

\* a faulty variant: only the exceptions of the fetch are caught
ExceptFetchOnly(t, stage, msg) ==
    IF stage = "fetch"
    THEN [t EXCEPT !.pc = "Errored",
                   !.result = Some(ScrapeResult(t.url, None, EmptyPage, None,
                                                None, <<>>, <<>>, Some(msg)))]
    ELSE [t EXCEPT !.pc = "Raised"]

\* a faulty variant: the error result keeps the page that was fetched
ExceptKeepsHtml(t, stage, msg) ==
    [t EXCEPT !.pc = "Errored",
              !.result = Some(ScrapeResult(t.url, None,
                                  IF t.html = None THEN EmptyPage ELSE t.html[1],
                                  None, None, <<>>, <<>>, Some(msg)))]

\* except Exception as e: return ScrapeResult(..., html="", error=str(e))
ExceptHandler(t, stage, msg) ==
    [t EXCEPT !.pc = "Errored",
              !.result = Some(ScrapeResult(t.url, None, EmptyPage, None, None,
                                           <<>>, <<>>, Some(msg)))]

\* a faulty variant: a failed GET is attempted once more
RetryFetchOnce(t, msg) ==
    IF t.gets < 2 THEN [t EXCEPT !.pc = "Pending"]
    ELSE ExceptHandler(t, "fetch", msg)

\* client.get or raise_for_status raises: the exception reaches the handler
OnFetchException(t, msg) == ExceptHandler(t, "fetch", msg)

Terminal(t) == t.pc \in {"Done", "Errored", "Raised"}

\* a faulty variant: the results are collected as the coroutines finish
GatherInCompletionOrder(ts, order) ==
    [k \in 1..Len(order) |-> ts[order[k]].result[1]]

\* a faulty variant: one failed coroutine fails the results of all
GatherFailsTogether(ts, order) ==
    IF \E j \in 1..Len(ts) : ts[j].result[1].error # None
    THEN [i \in 1..Len(ts) |->
             ScrapeResult(ts[i].url, None, EmptyPage, None, None, <<>>, <<>>,
                          Some("batch failed"))]
    ELSE [i \in 1..Len(ts) |-> ts[i].result[1]]

\* asyncio.gather(*tasks): the results in the order of the awaitables
Gather(ts, order) == [i \in 1..Len(ts) |-> ts[i].result[1]]

----------------------------------------------------------------------------
(* Requests *)

OptionalBools == {None, Some(TRUE), Some(FALSE)}

\* what a caller can hand to the tool: a scrape or a batch request, well
\* formed (every url a string) or not
Inputs ==
    [kind : {"scrape"}, urls : {<<u>> : u \in Urls},
     includeMarkdown : OptionalBools, wellFormed : BOOLEAN]
    \cup
    [kind : {"batch"}, urls : SeqsUpTo(Urls, MaxUrls),
     includeMarkdown : OptionalBools, wellFormed : BOOLEAN]

\* a faulty variant: an empty list is rejected as well
ValidNonEmptyRequest(in) == in.wellFormed /\ in.urls # <<>>

\* validation of ScrapeRequest / BatchScrapeRequest: the fields have the
\* declared types; urls: List[str] has no minimum length
ValidRequest(in) == in.wellFormed

IdleSearch == [key |-> None, pc |-> "idle", posts |-> 0, calls |-> 0,
               payload |-> None]

IdleMd == [pc |-> "idle", html |-> EmptyPage, out |-> None, counter |-> 0]

IdleJl == [pc |-> "idle", html |-> EmptyPage, result |-> None]

----------------------------------------------------------------------------
(* scrape and batch_scrape *)

Init ==
    /\ input \in Inputs
    /\ callState = "new"
    /\ tasks = <<>>
    /\ completed = <<>>
    /\ returned = <<>>
    /\ search = IdleSearch
    /\ md = IdleMd
    /\ jl = IdleJl

\* the request object is built from the caller's arguments
ValidateRequest ==
    /\ callState = "new"
    /\ callState' = IF ValidRequest(input) THEN "idle" ELSE "rejected"
    /\ UNCHANGED <<input, tasks, completed, returned, search, md, jl>>

\* scrape: one coroutine for request.url
ScrapeCall ==
    /\ callState = "idle"
    /\ input.kind = "scrape"
    /\ tasks' = <<NewTask(input.urls[1], OrFalse(input.includeMarkdown))>>
    /\ callState' = "running"
    /\ UNCHANGED <<input, completed, returned, search, md, jl>>

\* batch_scrape: one coroutine per url, in the order of request.urls
BatchScrapeCall ==
    /\ callState = "idle"
    /\ input.kind = "batch"
    /\ tasks' = [i \in 1..Len(input.urls) |->
                    NewTask(input.urls[i], OrFalse(input.includeMarkdown))]
    /\ callState' = "running"
    /\ UNCHANGED <<input, completed, returned, search, md, jl>>

\* the coroutine takes its timestamp and issues client.get(url)
StartFetch(i) ==
    /\ callState = "running"
    /\ tasks[i].pc = "Pending"
    /\ tasks' = [tasks EXCEPT ![i].pc = "Fetching", ![i].gets = @ + 1]
    /\ UNCHANGED <<input, callState, completed, returned, search, md, jl>>

\* a 2xx response: html_content = response.text
FetchOk(i) ==
    /\ callState = "running"
    /\ tasks[i].pc = "Fetching"
    /\ \E page \in BatchPages :
          tasks' = [tasks EXCEPT ![i].pc = "Fetched", ![i].html = Some(page)]
    /\ UNCHANGED <<input, callState, completed, returned, search, md, jl>>

\* a transport error, a timeout or a non-2xx status
FetchFail(i) ==
    /\ callState = "running"
    /\ tasks[i].pc = "Fetching"
    /\ \E msg \in Messages :
          /\ tasks' = [tasks EXCEPT ![i] =
                          OnFetchException(Raise(tasks[i], "fetch", msg), msg)]
          /\ completed' = IF Terminal(tasks'[i]) THEN Append(completed, i)
                          ELSE completed
    /\ UNCHANGED <<input, callState, returned, search, md, jl>>

\* parsing and extraction; without markdown the coroutine returns here
Extract(i) ==
    /\ callState = "running"
    /\ tasks[i].pc = "Fetched"
    /\ \E exc \in {None} \cup {Some(m) : m \in Messages} :
          LET t == tasks[i]
          IN  tasks' = [tasks EXCEPT ![i] =
                  IF exc # None
                  THEN ExceptHandler(Raise(t, "extract", exc[1]), "extract",
                                     exc[1])
                  ELSE IF t.include_markdown THEN [t EXCEPT !.pc = "Extracted"]
                  ELSE [t EXCEPT !.pc = "Done",
                                 !.result = Some(SuccessResult(t.url, t.html[1],
                                                               None))]]
    /\ completed' = IF Terminal(tasks'[i]) THEN Append(completed, i)
                    ELSE completed
    /\ UNCHANGED <<input, callState, returned, search, md, jl>>

\* markdown rendering, then the return of the try block
Render(i) ==
    /\ callState = "running"
    /\ tasks[i].pc = "Extracted"
    /\ \E exc \in {None} \cup {Some(m) : m \in Messages} :
          LET t == tasks[i]
          IN  tasks' = [tasks EXCEPT ![i] =
                  IF exc # None
                  THEN ExceptHandler(Raise(t, "render", exc[1]), "render",
                                     exc[1])
                  ELSE [t EXCEPT !.pc = "Done",
                                 !.result = Some(SuccessResult(t.url, t.html[1],
                                               Some(HtmlToMarkdown(t.html[1]))))]]
    /\ completed' = Append(completed, i)
    /\ UNCHANGED <<input, callState, returned, search, md, jl>>

\* scrape returns what its coroutine returned, or lets its exception through
ScrapeReturn ==
    /\ callState = "running"
    /\ input.kind = "scrape"
    /\ Terminal(tasks[1])
    /\ IF tasks[1].pc = "Raised"
       THEN callState' = "raised" /\ returned' = <<>>
       ELSE callState' = "returned" /\ returned' = <<tasks[1].result[1]>>
    /\ UNCHANGED <<input, tasks, completed, search, md, jl>>

\* gather is over: every coroutine has returned, or one has raised
GatherOver ==
    \/ \A i \in 1..Len(tasks) : Terminal(tasks[i])
    \/ \E i \in 1..Len(tasks) : tasks[i].pc = "Raised"

GatherReturn ==
    /\ callState = "running"
    /\ input.kind = "batch"
    /\ GatherOver
    /\ IF \E i \in 1..Len(tasks) : tasks[i].pc = "Raised"
       THEN callState' = "raised" /\ returned' = <<>>
       ELSE callState' = "returned" /\ returned' = Gather(tasks, completed)
    /\ UNCHANGED <<input, tasks, completed, search, md, jl>>

Next ==
    \/ ValidateRequest
    \/ ScrapeCall
    \/ BatchScrapeCall
    \/ \E i \in 1..Len(tasks) : StartFetch(i)
    \/ \E i \in 1..Len(tasks) : FetchOk(i)
    \/ \E i \in 1..Len(tasks) : FetchFail(i)
    \/ \E i \in 1..Len(tasks) : Extract(i)
    \/ \E i \in 1..Len(tasks) : Render(i)
    \/ ScrapeReturn
    \/ GatherReturn

Spec == Init /\ [][Next]_vars

----------------------------------------------------------------------------
(* google_search *)

\* serper_api_key as given to __init__: absent, empty, or a key
ApiKeys == {None, Some(""), Some("k")}

RequiredFields == {"q", "gl", "hl"}

SearchFields == RequiredFields \cup {"num", "page", "tbs", "autocorrect"}

\* GoogleSearchRequest objects: the required fields set, the optional ones
\* set or None
SearchRequests ==
    { [f \in SearchFields |->
          CASE f = "q" -> Some("query")
            [] f = "gl" -> Some("us")
            [] f = "hl" -> Some("en")
            [] f = "num" -> num
            [] f = "page" -> page
            [] f = "tbs" -> tbs
            [] f = "autocorrect" -> ac] :
      num \in {None, Some(10)}, page \in {None, Some(2)},
      tbs \in {None, Some("qdr:d")}, ac \in OptionalBools }

\* request.model_dump(exclude_none=True)
ModelDump(request) ==
    [f \in {g \in DOMAIN request : request[g] # None} |-> request[f][1]]

\* a faulty variant: the key is checked after the request has been posted
SearchPostsFirst(s, request) ==
    IF s.key = None \/ s.key = Some("")
    THEN [s EXCEPT !.pc = "config_error", !.calls = @ + 1, !.posts = @ + 1,
                   !.payload = Some(ModelDump(request))]
    ELSE [s EXCEPT !.pc = "awaiting", !.calls = @ + 1, !.posts = @ + 1,
                   !.payload = Some(ModelDump(request))]

\* google_search up to its await: `if not self.serper_api_key: raise`, else
\* the payload is built and client.post is issued
SearchEntry(s, request) ==
    IF s.key = None \/ s.key = Some("")
    THEN [s EXCEPT !.pc = "config_error", !.calls = @ + 1]
    ELSE [s EXCEPT !.pc = "awaiting", !.calls = @ + 1, !.posts = @ + 1,
                   !.payload = Some(ModelDump(request))]

InitSearch ==
    /\ \E key \in ApiKeys : search = [IdleSearch EXCEPT !.key = key]
    /\ input = CHOOSE in \in Inputs : TRUE
    /\ callState = "new"
    /\ tasks = <<>>
    /\ completed = <<>>
    /\ returned = <<>>
    /\ md = IdleMd
    /\ jl = IdleJl

GoogleSearchCall ==
    /\ search.pc # "awaiting"
    /\ search.calls < MaxSearchCalls
    /\ \E request \in SearchRequests : search' = SearchEntry(search, request)
    /\ UNCHANGED <<input, callState, tasks, completed, returned, md, jl>>

\* the response arrives: raise_for_status raises on a non-2xx status,
\* otherwise response.json() is returned
GoogleSearchResponse ==
    /\ search.pc = "awaiting"
    /\ \E ok \in BOOLEAN :
          search' = [search EXCEPT !.pc = IF ok THEN "returned"
                                          ELSE "http_error"]
    /\ UNCHANGED <<input, callState, tasks, completed, returned, md, jl>>

NextSearch ==
    \/ GoogleSearchCall
    \/ GoogleSearchResponse

SpecSearch == InitSearch /\ [][NextSearch]_vars

----------------------------------------------------------------------------
(* _html_to_markdown applied to the pages of lists *)

InitMarkdown ==
    /\ \E html \in ListPages : md = [IdleMd EXCEPT !.pc = "input", !.html = html]
    /\ input = CHOOSE in \in Inputs : TRUE
    /\ callState = "new"
    /\ tasks = <<>>
    /\ completed = <<>>
    /\ returned = <<>>
    /\ search = IdleSearch
    /\ jl = IdleJl

RenderMarkdown ==
    /\ md.pc = "input"
    /\ md' = [md EXCEPT !.pc = "done",
                        !.out = Some(MarkdownRun(md.html).text),
                        !.counter = MarkdownRun(md.html).counter]
    /\ UNCHANGED <<input, callState, tasks, completed, returned, search, jl>>

NextMarkdown == RenderMarkdown

SpecMarkdown == InitMarkdown /\ [][NextMarkdown]_vars

----------------------------------------------------------------------------
(* the try block of _scrape_single_url applied to a fetched page *)

InitJsonLd ==
    /\ \E html \in Pages : jl = [IdleJl EXCEPT !.pc = "fetched", !.html = html]
    /\ input = CHOOSE in \in Inputs : TRUE
    /\ callState = "new"
    /\ tasks = <<>>
    /\ completed = <<>>
    /\ returned = <<>>
    /\ search = IdleSearch
    /\ md = IdleMd

ScrapeFetched ==
    /\ jl.pc = "fetched"
    /\ \E url \in Urls :
          jl' = [jl EXCEPT !.pc = "done",
                           !.result = Some(SuccessResult(url, jl.html, None))]
    /\ UNCHANGED <<input, callState, tasks, completed, returned, search, md>>

NextJsonLd == ScrapeFetched

SpecJsonLd == InitJsonLd /\ [][NextJsonLd]_vars

----------------------------------------------------------------------------
(* Properties of scrape and batch_scrape, under Spec *)

BatchReturned == input.kind = "batch" /\ callState = "returned"

\* C1: a batch_scrape that returns gives a list as long as request.urls
\* whose i-th result carries the i-th url, whatever the order in which the
\* coroutines finished.
C1_OrderPreserved ==
    BatchReturned =>
        /\ Len(returned) = Len(input.urls)
        /\ \A i \in 1..Len(input.urls) : returned[i].url = input.urls[i]

\* two different urls whose coroutines finished in the reverse order
C1_Witness ==
    /\ BatchReturned
    /\ Len(input.urls) = 2
    /\ input.urls[1] # input.urls[2]
    /\ completed = <<2, 1>>

\* C2: in a returned batch, every url whose own fetch, extraction and
\* rendering raised nothing has a successful result holding its own page,
\* whatever happened to the other urls.
C2_Isolation ==
    BatchReturned =>
        \A i \in 1..Len(tasks) :
            tasks[i].failed = "none" =>
                /\ returned[i].error = None
                /\ returned[i].html = tasks[i].html[1]
                /\ returned[i].text # None

\* a batch in which the first url failed and the second succeeded
C2_Witness ==
    /\ BatchReturned
    /\ Len(tasks) = 2
    /\ tasks[1].failed = "fetch"
    /\ tasks[2].failed = "none"
    /\ returned[2].error = None

\* C3 (as claimed): every result satisfies exactly one of (error absent and
\* html non-empty) and (error present and html empty).
C3_ExactlyOne ==
    callState = "returned" =>
        \A i \in 1..Len(returned) :
            LET r == returned[i]
                ok == r.error = None /\ r.html # EmptyPage
                failed == r.error # None /\ r.html = EmptyPage
            IN  (ok \/ failed) /\ ~(ok /\ failed)

\* C4: scrape never lets an exception through: whatever stage raises, the
\* call returns, and its result has the exception's message as error; a run
\* in which nothing raised has no error.
C4_ScrapeNeverRaises ==
    input.kind = "scrape" =>
        /\ callState # "raised"
        /\ \A i \in 1..Len(tasks) : tasks[i].pc # "Raised"
        /\ callState = "returned" =>
               /\ Len(returned) = 1
               /\ returned[1].error = tasks[1].exc

\* a scrape that returned after its markdown rendering raised
C4_Witness ==
    /\ input.kind = "scrape"
    /\ callState = "returned"
    /\ tasks[1].failed = "render"
    /\ returned[1].error = Some("boom")

C9_ErroredDiscardsPage ==
    \A i \in 1..Len(tasks) :
        LET t == tasks[i]
        IN  /\ Terminal(t) => (t.pc \in {"Done", "Errored"} /\ t.result # None)
            /\ (t.pc = "Done") <=> (Terminal(t) /\ t.failed = "none")
            /\ (Terminal(t) /\ t.failed \in {"extract", "render"}) =>
                   /\ t.pc = "Errored"
                   /\ t.html # None
                   /\ t.result[1].html = EmptyPage
                   /\ t.result[1].title = None
                   /\ t.result[1].text = None
                   /\ t.result[1].markdown = None
                   /\ t.result[1].meta_tags = <<>>
                   /\ t.result[1].json_ld = <<>>
                   /\ t.result[1].error = t.exc
                   /\ t.result[1].url = t.url

\* extraction raised on a page that had been fetched with content
C9_Witness ==
    \E i \in 1..Len(tasks) :
        /\ tasks[i].pc = "Errored"
        /\ tasks[i].failed = "extract"
        /\ tasks[i].html # None
        /\ tasks[i].html[1] # EmptyPage
        /\ tasks[i].result[1].html = EmptyPage

\* C10: no coroutine issues a second GET: a coroutine that has started has
\* issued exactly one, and a failed GET ends the coroutine with an error
\* result.
C10_NoRetry ==
    \A i \in 1..Len(tasks) :
        LET t == tasks[i]
        IN  /\ t.gets = (IF t.pc = "Pending" THEN 0 ELSE 1)
            /\ t.failed = "fetch" =>
                   /\ t.pc = "Errored"
                   /\ t.result # None
                   /\ t.result[1].error = t.exc

\* a batch that returned after the GET of its second url failed
C10_Witness ==
    /\ BatchReturned
    /\ Len(tasks) = 2
    /\ tasks[2].failed = "fetch"
    /\ tasks[2].gets = 1
    /\ returned[2].error # None

----------------------------------------------------------------------------
(* Properties of google_search, under SpecSearch *)

\* C5: a client built without a key (None, or the empty string) never
\* issues a request: each of its calls has ended in the configuration
\* error, and the number of requests posted is zero when it is raised.
C5_NoKeyNoRequest ==
    /\ search.pc = "config_error" => search.posts = 0
    /\ search.key \in {None, Some("")} =>
           /\ search.posts = 0
           /\ search.payload = None
           /\ search.calls > 0 => search.pc = "config_error"

\* a client without a key whose google_search has raised
C5_Witness ==
    /\ search.key = None
    /\ search.calls > 0
    /\ search.pc = "config_error"
    /\ search.posts = 0

----------------------------------------------------------------------------
(* Properties of _html_to_markdown, under SpecMarkdown *)

\* the li texts of the page with whether an ol had been opened before them
RECURSIVE ItemsOf(_, _)
ItemsOf(html, inOl) ==
    IF html = <<>> THEN <<>>
    ELSE IF Head(html).tag = "ol" THEN ItemsOf(Tail(html), TRUE)
    ELSE IF Head(html).tag = "li"
         THEN <<[text |-> Head(html).body, numbered |-> inOl]>>
                  \o ItemsOf(Tail(html), inOl)
         ELSE ItemsOf(Tail(html), inOl)

\* the number of the k-th item: its rank among the items of ordered lists
Rank(items, k) == Cardinality({j \in 1..k : items[j].numbered})

\* the line expected for the k-th item
Line(items, k) ==
    IF items[k].numbered
    THEN Str(Rank(items, k)) \o <<".", " ">> \o items[k].text
    ELSE items[k].text

Occurs(old, text) ==
    \E p \in 1..(Len(text) - Len(old) + 1) :
        SubSeq(text, p, p + Len(old) - 1) = old

\* no text of a numbered item occurs in the line of another item
NoOverlap(items) ==
    \A k \in 1..Len(items) : \A j \in 1..Len(items) :
        (items[k].numbered /\ j # k) => ~Occurs(items[k].text, Line(items, j))

TwoListsOfTwo(html) ==
    /\ Len(html) = 6
    /\ \A p \in 1..6 : html[p].tag = (IF p \in {1, 4} THEN "ol" ELSE "li")

\* C7 (as claimed): for two ol elements of two li items each, the rendered
\* items are numbered 1, 2, 3, 4 in document order for every choice of
\* non-empty item texts.
C7_NumberedInOrder ==
    (md.pc = "done" /\ TwoListsOfTwo(md.html)) =>
        md.out = Some(Join([k \in 1..4 |->
                               Str(k) \o <<".", " ">> \o ItemsOf(md.html, FALSE)[k].text],
                           <<"\n">>))

\* C7 (amended): the counter is shared by all ordered lists and never
\* reset: the k-th item of the ordered lists is given the number k; and the
\* rendered text shows every item under its number, in document order,
\* when no item's text occurs inside the line of another item.
C7_SharedCounter ==
    md.pc = "done" =>
        LET items == ItemsOf(md.html, FALSE)
        IN  /\ md.counter = 1 + Rank(items, Len(items))
            /\ NoOverlap(items) =>
                   md.out = Some(Join([k \in 1..Len(items) |-> Line(items, k)],
                                      <<"\n">>))

\* two lists of two items with four texts that do not overlap, rendered
C7_Witness ==
    /\ md.pc = "done"
    /\ TwoListsOfTwo(md.html)
    /\ NoOverlap(ItemsOf(md.html, FALSE))
    /\ md.counter = 5

----------------------------------------------------------------------------
(* Properties of the JSON-LD extraction, under SpecJsonLd *)

IsLdScript(el) == el.tag = "script" /\ el.type = "application/ld+json"

\* the blocks of a result are those of the elements els, in order
BlocksOf(result, els) ==
    /\ Len(result.json_ld) = Len(els)
    /\ \A k \in 1..Len(els) :
           /\ result.json_ld[k].raw = Strip(els[k].body)
           /\ result.json_ld[k].parsed = JsonLoads(els[k].body)

\* C8 (as claimed): the result has, in document order, one block per
\* application/ld+json script element whose content parses as JSON, and no
\* error.
C8_OnePerValidElement ==
    jl.pc = "done" =>
        /\ BlocksOf(jl.result[1],
                    SelectSeq(jl.html,
                              LAMBDA el : IsLdScript(el) /\ JsonParses(el.body)))
        /\ jl.result[1].error = None

\* C8 (amended): the result has, in document order, one block per
\* application/ld+json script element whose type attribute is written in
\* single or double quotes and whose content parses as JSON; blocks that do
\* not parse are dropped and leave the error field unset.
C8_OnePerValidQuotedElement ==
    jl.pc = "done" =>
        /\ BlocksOf(jl.result[1],
                    SelectSeq(jl.html,
                              LAMBDA el : /\ IsLdScript(el)
                                          /\ el.quote # "none"
                                          /\ JsonParses(el.body)))
        /\ jl.result[1].error = None
        /\ jl.result[1].html = jl.html

\* a page with one valid and one invalid quoted block gave one block
C8_Witness ==
    /\ jl.pc = "done"
    /\ Len(jl.html) = 2
    /\ \A k \in 1..2 : IsLdScript(jl.html[k]) /\ jl.html[k].quote # "none"
    /\ JsonParses(jl.html[1].body)
    /\ ~JsonParses(jl.html[2].body)
    /\ Len(jl.result[1].json_ld) = 1
    /\ jl.result[1].error = None

====
